---- MODULE Spec2Model ----
(***************************************************************************)
(* Model of src/app.py: the POST /process-url/ handler process_vc_url and  *)
(* the functions it calls (scrape_texts_and_links, extract_vc_information, *)
(* format_information), together with the external collaborators it talks  *)
(* to: the target web site, the LLM chat-completion service and the        *)
(* "VentureCapital" collection of the vector index.                        *)
(*                                                                         *)
(* JSON values are records [t, v]: t is the Python type the value parses   *)
(* to ("str", "list", "num", "null") and v the sequence of its strings (a  *)
(* str is a one-element v; a list is the list of its string elements).     *)
(***************************************************************************)
EXTENDS Naturals, Sequences, FiniteSets

VARIABLES
    store,               \* the VentureCapital collection: a set of [uuid, properties]
    nreq,                \* number of requests received so far
    pc,                  \* pc[w]: the handler's position in worker w
    url,                 \* data.url
    page,                \* scrape_texts_and_links: the response of requests.get
    scraped,             \* the value scrape_texts_and_links returned
    text,                \* process_vc_url: text = texts + links
    response,            \* extract_vc_information: the chat completion
    extracted_info,      \* process_vc_url: extracted_info
    existing,            \* process_vc_url: response.objects, of fetch_objects and then of near_text
    uuid,                \* process_vc_url: uuid
    user_friendly_text,  \* process_vc_url: user_friendly_text
    result,              \* the HTTP response of the request
    calls,               \* the external calls the request has made, in order
    store0               \* the collection as it was when the request began

vars == <<store, nreq, pc, url, page, scraped, text, response, extracted_info,
          existing, uuid, user_friendly_text, result, calls, store0>>

-----------------------------------------------------------------------------
(* Bounds *)

MaxRequests == 2

Workers == {1, 2}

-----------------------------------------------------------------------------
(* Python values *)

NoneVal == [none |-> TRUE]

PyStr(s) == [t |-> "str", v |-> <<s>>]

PyList(seq) == [t |-> "list", v |-> seq]

PyNum(s) == [t |-> "num", v |-> <<s>>]

PyNull == [t |-> "null", v |-> <<>>]

isinstance_str(x) == x.t = "str"

RECURSIVE join(_, _)
join(sep, seq) ==
    IF seq = <<>> THEN ""
    ELSE IF Len(seq) = 1 THEN seq[1]
    ELSE seq[1] \o sep \o join(sep, Tail(seq))

\* Strings are Python's: s[i-1] is Char(s, i), s[a-1:b] is Slice(s, a, b).
Char(s, i) == SubSeq(s, i, i)

\* A slice is cut to the string, as Python cuts it.
Slice(s, a, b) ==
    LET lo == IF a < 1 THEN 1 ELSE a
        hi == IF b > Len(s) THEN Len(s) ELSE b
    IN  IF lo > hi THEN "" ELSE SubSeq(s, lo, hi)

RECURSIVE Find(_, _, _)
\* s.find(c, start): the first position of the character c from start on, 0 if none.
Find(s, c, start) ==
    IF start > Len(s) THEN 0
    ELSE IF Char(s, start) = c THEN start
    ELSE Find(s, c, start + 1)

\* c in s
Contains(s, c) == \E i \in 1..Len(s) : Char(s, i) = c

\* s.rfind(c)
RFind(s, c) ==
    IF Contains(s, c)
    THEN CHOOSE i \in 1..Len(s) : Char(s, i) = c /\ \A j \in (i + 1)..Len(s) : Char(s, j) # c
    ELSE 0

RECURSIVE split(_, _)
\* s.split(c)
split(s, c) ==
    LET i == Find(s, c, 1)
    IN  IF i = 0 THEN <<s>> ELSE <<Slice(s, 1, i - 1)>> \o split(Slice(s, i + 1, Len(s)), c)

\* The escape repr writes for one character inside the quote q. Of the characters
\* that are not printable, those a string of this module can hold are \t, \n, \r, \f.
repr_char(c, q) ==
    IF c = "\\" THEN "\\\\"
    ELSE IF c = q THEN "\\" \o q
    ELSE IF c = "\n" THEN "\\n"
    ELSE IF c = "\t" THEN "\\t"
    ELSE IF c = "\r" THEN "\\r"
    ELSE IF c = "\f" THEN "\\x0c"
    ELSE c

\* repr of a str: in double quotes when it holds a ' and no ", in single quotes
\* otherwise, with the backslash, the quote and the non-printables escaped.
repr_str(s) ==
    LET q == IF Contains(s, "'") /\ ~Contains(s, "\"") THEN "\"" ELSE "'"
    IN  q \o join("", [i \in 1..Len(s) |-> repr_char(Char(s, i), q)]) \o q

repr(x) ==
    CASE x.t = "str" -> repr_str(x.v[1])
      [] x.t = "list" -> "[" \o join(", ", [i \in 1..Len(x.v) |-> repr_str(x.v[i])]) \o "]"
      [] x.t = "num" -> x.v[1]
      [] x.t = "null" -> "None"

str(x) == IF x.t = "str" THEN x.v[1] ELSE repr(x)

FieldOrder == <<"vc_name", "contacts", "industries", "investment_rounds">>

Keys == {FieldOrder[i] : i \in 1..Len(FieldOrder)}

str_dict(d) ==
    "{" \o join(", ", [i \in 1..Len(FieldOrder) |->
                          repr_str(FieldOrder[i]) \o ": " \o repr(d[FieldOrder[i]])]) \o "}"

Lowercase == <<"a", "b", "c", "d", "e", "f", "g", "h", "i", "j", "k", "l", "m",
               "n", "o", "p", "q", "r", "s", "t", "u", "v", "w", "x", "y", "z">>

Uppercase == <<"A", "B", "C", "D", "E", "F", "G", "H", "I", "J", "K", "L", "M",
               "N", "O", "P", "Q", "R", "S", "T", "U", "V", "W", "X", "Y", "Z">>

upper(c) ==
    IF \E i \in 1..Len(Lowercase) : Lowercase[i] = c
    THEN Uppercase[CHOOSE i \in 1..Len(Lowercase) : Lowercase[i] = c]
    ELSE c

lower(c) ==
    IF \E i \in 1..Len(Uppercase) : Uppercase[i] = c
    THEN Lowercase[CHOOSE i \in 1..Len(Uppercase) : Uppercase[i] = c]
    ELSE c

capitalize(key) ==
    join("", [i \in 1..Len(key) |->
                 IF i = 1 THEN upper(Char(key, i)) ELSE lower(Char(key, i))])

-----------------------------------------------------------------------------
(* urllib.parse *)

uses_relative ==
    {"", "ftp", "http", "gopher", "nntp", "imap", "wais", "file", "https", "shttp",
     "mms", "prospero", "rtsp", "rtsps", "rtspu", "sftp", "svn", "svn+ssh", "ws", "wss"}

uses_netloc ==
    {"", "ftp", "http", "gopher", "nntp", "telnet", "imap", "wais", "file", "mms",
     "https", "shttp", "snews", "prospero", "rtsp", "rtsps", "rtspu", "rsync", "svn",
     "svn+ssh", "sftp", "nfs", "git", "git+ssh", "ws", "wss"}

uses_params ==
    {"", "ftp", "hdl", "prospero", "http", "imap", "https", "shttp", "rtsp", "rtsps",
     "rtspu", "sip", "sips", "mms", "sftp", "tel"}

is_alpha(c) ==
    \/ \E i \in 1..Len(Lowercase) : Lowercase[i] = c
    \/ \E i \in 1..Len(Uppercase) : Uppercase[i] = c

scheme_chars(c) ==
    is_alpha(c) \/ c \in {"0", "1", "2", "3", "4", "5", "6", "7", "8", "9", "+", "-", "."}

lower_str(s) == join("", [i \in 1..Len(s) |-> lower(Char(s, i))])

\* The C0 controls and the space, of which a string here can hold these.
C0_CONTROL_OR_SPACE == {" ", "\t", "\n", "\r", "\f"}

RECURSIVE lstrip(_)
lstrip(s) ==
    IF Len(s) > 0 /\ Char(s, 1) \in C0_CONTROL_OR_SPACE
    THEN lstrip(Slice(s, 2, Len(s)))
    ELSE s

\* url.replace(b, "") for b in '\t', '\r', '\n'
remove_unsafe(s) ==
    join("", [i \in 1..Len(s) |->
                 IF Char(s, i) \in {"\t", "\r", "\n"} THEN "" ELSE Char(s, i)])

ValueError == [raised |-> "ValueError"]

\* url[:i] is a scheme: i, the position of the first ":", is past the first
\* character, which is a letter, and every character before i is of scheme_chars.
has_scheme(u, i) ==
    /\ i > 1
    /\ is_alpha(Char(u, 1))
    /\ \A k \in 1..(i - 1) : scheme_chars(Char(u, k))

\* s.split(c, 1)[0] when c is in s, s otherwise.
before(s, c) == IF Contains(s, c) THEN Slice(s, 1, Find(s, c, 1) - 1) ELSE s

\* s.split(c, 1)[1] when c is in s, '' otherwise.
after(s, c) == IF Contains(s, c) THEN Slice(s, Find(s, c, 1) + 1, Len(s)) ELSE ""

\* scheme, url = url[:i].lower(), url[i+1:] when url[:i] is a scheme.
scheme_of(u, default) ==
    IF has_scheme(u, Find(u, ":", 1)) THEN lower_str(before(u, ":")) ELSE default

after_scheme(u) == IF has_scheme(u, Find(u, ":", 1)) THEN after(u, ":") ELSE u

\* _splitnetloc(url, 2): the end of the domain part, the first of / ? # after "//".
netloc_end(u) ==
    LET ds == {Find(u, c, 3) : c \in {"/", "?", "#"}} \ {0}
    IN  IF ds = {} THEN Len(u) + 1 ELSE CHOOSE d \in ds : \A e \in ds : d <= e

\* netloc, url = _splitnetloc(url, 2) when url[:2] == '//'.
netloc_of(u) == IF Slice(u, 1, 2) = "//" THEN Slice(u, 3, netloc_end(u) - 1) ELSE ""

after_netloc(u) == IF Slice(u, 1, 2) = "//" THEN Slice(u, netloc_end(u), Len(u)) ELSE u

DECIMAL_DIGITS == <<"0", "1", "2", "3", "4", "5", "6", "7", "8", "9">>

HEX_DIGITS ==
    {"0", "1", "2", "3", "4", "5", "6", "7", "8", "9",
     "A", "B", "C", "D", "E", "F", "a", "b", "c", "d", "e", "f"}

\* octet_str.isascii() and octet_str.isdigit(), for one character
is_digit(c) == \E i \in 1..Len(DECIMAL_DIGITS) : DECIMAL_DIGITS[i] = c

RECURSIVE int10(_)
\* int(s, 10) of a string of decimal digits
int10(s) ==
    IF s = "" THEN 0
    ELSE 10 * int10(Slice(s, 1, Len(s) - 1))
             + (CHOOSE i \in 1..Len(DECIMAL_DIGITS) :
                    DECIMAL_DIGITS[i] = Char(s, Len(s))) - 1

RECURSIVE hex(_)
\* '%x' % n
hex(n) ==
    IF n < 10 THEN DECIMAL_DIGITS[n + 1]
    ELSE IF n < 16 THEN <<"a", "b", "c", "d", "e", "f">>[n - 9]
    ELSE hex(n \div 16) \o hex(n % 16)

\* ipaddress: whether IPv4Address._parse_octet raises.
parse_octet_raises(octet_str) ==
    \/ octet_str = ""
    \/ \E k \in 1..Len(octet_str) : ~is_digit(Char(octet_str, k))
    \/ Len(octet_str) > 3
    \/ (octet_str # "0" /\ Char(octet_str, 1) = "0")
    \/ int10(octet_str) > 255

\* Whether the list of octets is not one of four octets that parse.
octets_raise(octets) ==
    \/ Len(octets) # 4
    \/ \E i \in 1..Len(octets) : parse_octet_raises(octets[i])

\* ipaddress: whether IPv4Address(address) raises AddressValueError.
IPv4Address_raises(address) ==
    \/ Contains(address, "/")
    \/ address = ""
    \/ octets_raise(split(address, "."))

\* ipaddress: whether IPv6Address._parse_hextet raises; int('', 16) raises too.
parse_hextet_raises(hextet_str) ==
    \/ \E k \in 1..Len(hextet_str) : Char(hextet_str, k) \notin HEX_DIGITS
    \/ Len(hextet_str) > 4
    \/ hextet_str = ""

\* The two hextets '%x' % ((ipv4_int >> 16) & 0xFFFF) and '%x' % (ipv4_int & 0xFFFF)
\* of the IPv4 address of the octets.
ipv4_hextets(octets) ==
    <<hex(256 * int10(octets[1]) + int10(octets[2])),
      hex(256 * int10(octets[3]) + int10(octets[4]))>>

\* parts after "if '.' in parts[-1]": the IPv4-style suffix turned into two hextets.
with_ipv4_suffix(parts) ==
    IF Contains(parts[Len(parts)], ".")
    THEN SubSeq(parts, 1, Len(parts) - 1)
             \o ipv4_hextets(split(parts[Len(parts)], "."))
    ELSE parts

\* The positions of '' in parts, the endpoints disregarded.
skips(parts) == {i \in 2..(Len(parts) - 1) : parts[i] = ""}

\* parts_hi and parts_lo for the '::' at position i of parts.
parts_hi(parts, i) == IF parts[1] = "" THEN i - 2 ELSE i - 1

parts_lo(parts, i) == IF parts[Len(parts)] = "" THEN Len(parts) - i - 1 ELSE Len(parts) - i

\* The branch "skip_index is not None" and its hextets, for the '::' at position i.
with_skip_raises(parts, i) ==
    \/ (parts[1] = "" /\ parts_hi(parts, i) # 0)
    \/ (parts[Len(parts)] = "" /\ parts_lo(parts, i) # 0)
    \/ 8 - (parts_hi(parts, i) + parts_lo(parts, i)) < 1
    \/ \E k \in 1..parts_hi(parts, i) : parse_hextet_raises(parts[k])
    \/ \E k \in (Len(parts) - parts_lo(parts, i) + 1)..Len(parts) :
          parse_hextet_raises(parts[k])

\* The branch without a '::' and its hextets.
without_skip_raises(parts) ==
    \/ Len(parts) # 8
    \/ parts[1] = ""
    \/ parts[Len(parts)] = ""
    \/ \E k \in 1..Len(parts) : parse_hextet_raises(parts[k])

\* IPv6Address._ip_int_from_string from "_max_parts" on.
hextets_raise(parts) ==
    \/ Len(parts) > 9
    \/ Cardinality(skips(parts)) > 1
    \/ IF skips(parts) = {} THEN without_skip_raises(parts)
       ELSE with_skip_raises(parts, CHOOSE i \in skips(parts) : TRUE)

\* IPv6Address._ip_int_from_string for the parts of ip_str.split(':').
parts_raise(parts) ==
    \/ Len(parts) < 3
    \/ (Contains(parts[Len(parts)], ".") /\ IPv4Address_raises(parts[Len(parts)]))
    \/ hextets_raise(with_ipv4_suffix(parts))

\* ipaddress: whether IPv6Address(address) raises AddressValueError: a '/', a
\* scope id after % that is empty or holds a %, or an address that does not parse.
IPv6Address_raises(address) ==
    \/ Contains(address, "/")
    \/ (Contains(address, "%")
           /\ (after(address, "%") = "" \/ Contains(after(address, "%"), "%")))
    \/ before(address, "%") = ""
    \/ parts_raise(split(before(address, "%"), ":"))

\* re.match(r"\Av[a-fA-F0-9]+\..+\Z", hostname): hex digits from the second
\* character to the first ".", and after it at least one character, none a newline.
IPvFuture(hostname) ==
    /\ Find(hostname, ".", 1) > 2
    /\ \A k \in 2..(Find(hostname, ".", 1) - 1) : Char(hostname, k) \in HEX_DIGITS
    /\ Find(hostname, ".", 1) < Len(hostname)
    /\ ~Contains(after(hostname, "."), "\n")

\* Whether _check_bracketed_host(hostname) raises ValueError: an IPvFuture address
\* that is invalid, a host that is no IP address, or an IPv4 address.
check_bracketed_host_raises(hostname) ==
    IF Slice(hostname, 1, 1) = "v" THEN ~IPvFuture(hostname)
    ELSE \/ (IPv4Address_raises(hostname) /\ IPv6Address_raises(hostname))
         \/ ~IPv4Address_raises(hostname)

\* bracketed_host = netloc.partition('[')[2].partition(']')[0]
bracketed_host(netloc) == before(after(netloc, "["), "]")

\* Whether urlsplit raises ValueError on the netloc: one bracket of a pair, or a
\* host in brackets that _check_bracketed_host refuses. _checknetloc raises on the
\* 19 characters whose NFKC normalization holds one of / ? # @ : (U+2047 to U+FF20),
\* none of which a string of this module can hold.
netloc_raises(netloc) ==
    \/ Contains(netloc, "[") # Contains(netloc, "]")
    \/ (Contains(netloc, "[") /\ check_bracketed_host_raises(bracketed_host(netloc)))

\* The ValueError of the netloc, then the fragment and the query split off the rest.
SplitResult(scheme, netloc, u) ==
    IF netloc_raises(netloc) THEN ValueError
    ELSE [scheme |-> scheme, netloc |-> netloc,
          path |-> before(before(u, "#"), "?"),
          query |-> after(before(u, "#"), "?"),
          fragment |-> after(u, "#")]

\* urlsplit from the netloc on, for the scheme found and the url after it.
urlsplit_netloc(scheme, u) == SplitResult(scheme, netloc_of(u), after_netloc(u))

\* urlsplit from the scheme on, for the url stripped and cleaned.
urlsplit_scheme(u, default) == urlsplit_netloc(scheme_of(u, default), after_scheme(u))

\* urlsplit(url, scheme)
urlsplit(url0, default) == urlsplit_scheme(remove_unsafe(lstrip(url0)), default)

\* _splitparams(url): the position of the ; that starts the params, 0 if none.
params_at(path) ==
    IF Contains(path, "/") THEN Find(path, ";", RFind(path, "/")) ELSE Find(path, ";", 1)

\* The ParseResult of a split url whose params start at i.
ParseResult(sp, i) ==
    [scheme |-> sp.scheme, netloc |-> sp.netloc,
     path |-> IF i > 0 THEN Slice(sp.path, 1, i - 1) ELSE sp.path,
     params |-> IF i > 0 THEN Slice(sp.path, i + 1, Len(sp.path)) ELSE "",
     query |-> sp.query, fragment |-> sp.fragment]

\* urlparse after urlsplit: the params are split off for a scheme of uses_params
\* with a ; in the path.
urlparse_split(sp) ==
    IF sp = ValueError THEN ValueError
    ELSE ParseResult(sp, IF sp.scheme \in uses_params THEN params_at(sp.path) ELSE 0)

urlparse(url0, default) == urlparse_split(urlsplit(url0, default))

\* url = '//' + (netloc or '') + url, with a "/" before a path that has none.
with_netloc(scheme, netloc, path) ==
    IF netloc # "" \/ (scheme # "" /\ scheme \in uses_netloc /\ Slice(path, 1, 2) # "//")
    THEN "//" \o netloc \o (IF path # "" /\ Slice(path, 1, 1) # "/" THEN "/" ELSE "")
              \o path
    ELSE path

\* scheme + ':' + url, url + '?' + query, url + '#' + fragment
with_rest(scheme, u, query, fragment) ==
    (IF scheme # "" THEN scheme \o ":" ELSE "") \o u
        \o (IF query # "" THEN "?" \o query ELSE "")
        \o (IF fragment # "" THEN "#" \o fragment ELSE "")

urlunsplit(scheme, netloc, path, query, fragment) ==
    with_rest(scheme, with_netloc(scheme, netloc, path), query, fragment)

urlunparse(scheme, netloc, path, params, query, fragment) ==
    urlunsplit(scheme, netloc, IF params # "" THEN path \o ";" \o params ELSE path,
               query, fragment)

\* base_parts = bpath.split('/'), without its last part when that is not ''.
base_parts(bp) == IF bp[Len(bp)] # "" THEN SubSeq(bp, 1, Len(bp) - 1) ELSE bp

\* segments[1:-1] = filter(None, segments[1:-1])
drop_empty_inner(segments) ==
    IF Len(segments) < 2 THEN segments
    ELSE <<segments[1]>>
             \o SelectSeq(SubSeq(segments, 2, Len(segments) - 1), LAMBDA x : x # "")
             \o <<segments[Len(segments)]>>

\* The segments of an absolute path, or base_parts + path.split('/') filtered.
segments_of(bpath, path) ==
    IF Slice(path, 1, 1) = "/" THEN split(path, "/")
    ELSE drop_empty_inner(base_parts(split(bpath, "/")) \o split(path, "/"))

RECURSIVE resolve(_, _)
\* The loop over the segments: ".." pops, "." is skipped, the rest is appended.
resolve(segments, resolved_path) ==
    IF segments = <<>> THEN resolved_path
    ELSE resolve(Tail(segments),
                 IF Head(segments) = ".."
                 THEN IF resolved_path = <<>> THEN resolved_path
                      ELSE SubSeq(resolved_path, 1, Len(resolved_path) - 1)
                 ELSE IF Head(segments) = "." THEN resolved_path
                 ELSE Append(resolved_path, Head(segments)))

\* resolved_path, with '' appended when the last segment is "." or "..".
resolved_of(segments) ==
    IF segments[Len(segments)] \in {".", ".."}
    THEN Append(resolve(segments, <<>>), "")
    ELSE resolve(segments, <<>>)

\* '/'.join(resolved_path) or '/'
joined_or_root(joined) == IF joined = "" THEN "/" ELSE joined

\* urljoin for the parsed base b and the parsed reference r.
urljoin_parsed(url0, b, r) ==
    IF r = ValueError THEN ValueError
    ELSE IF r.scheme # b.scheme \/ r.scheme \notin uses_relative THEN url0
    ELSE IF r.scheme \in uses_netloc /\ r.netloc # ""
    THEN urlunparse(r.scheme, r.netloc, r.path, r.params, r.query, r.fragment)
    ELSE IF r.path = "" /\ r.params = ""
    THEN urlunparse(r.scheme, IF r.scheme \in uses_netloc THEN b.netloc ELSE r.netloc,
                    b.path, b.params, IF r.query = "" THEN b.query ELSE r.query,
                    r.fragment)
    ELSE urlunparse(r.scheme, IF r.scheme \in uses_netloc THEN b.netloc ELSE r.netloc,
                    joined_or_root(join("/", resolved_of(segments_of(b.path, r.path)))),
                    r.params, r.query, r.fragment)

\* urljoin for the parsed base b: the reference is parsed with the base's scheme.
urljoin_base(url0, b) ==
    IF b = ValueError THEN ValueError
    ELSE urljoin_parsed(url0, b, urlparse(url0, b.scheme))

\* urljoin(base, url): the reference url resolved against base, or the ValueError
\* that parsing either raises.
urljoin(base, url0) ==
    IF base = "" THEN url0
    ELSE IF url0 = "" THEN base
    ELSE urljoin_base(url0, urlparse(base, ""))

\* Whether parsing the reference with the scheme of the parsed base b raises.
parse_raises(url0, b) == b = ValueError \/ urlparse(url0, b.scheme) = ValueError

\* Whether urljoin(base, url) raises the ValueError of parsing either.
urljoin_raises(base, url0) ==
    /\ base # ""
    /\ url0 # ""
    /\ parse_raises(url0, urlparse(base, ""))

-----------------------------------------------------------------------------
(* scrape_texts_and_links *)

raises_for_status(r) == r.status_code >= 400 /\ r.status_code < 600

\* requests.get or raise_for_status raises a RequestException.
RequestException(r) == r.kind = "ConnectionError" \/ raises_for_status(r)

\* Whether building the links raises: urljoin does for one of the anchors.
links_raise(u, content) ==
    \E i \in 1..Len(content.anchors) : urljoin_raises(u, content.anchors[i].href)

\* ' '.join of "<absolute url> (<anchor text>)" over the anchors with an href.
links_of(u, content) ==
    join(" ", [i \in 1..Len(content.anchors) |->
                  urljoin(u, content.anchors[i].href)
                      \o " (" \o content.anchors[i].text \o ")"])

\* The value the function returns for the outcome r of requests.get(url):
\* None on a RequestException (no connection, or raise_for_status on a 4xx/5xx),
\* the pair (texts, links) otherwise; a ValueError of urljoin is not caught.
scrape_texts_and_links(u, r) ==
    IF RequestException(r) THEN NoneVal
    ELSE IF links_raise(u, r.content) THEN ValueError
    ELSE [texts |-> r.content.text, links |-> links_of(u, r.content)]

-----------------------------------------------------------------------------
(* extract_vc_information *)

\* coerce without the wrapping of a str.
coerce_as_is(x) == x

coerce(x) == IF isinstance_str(x) THEN PyList(<<x.v[1]>>) ELSE x

\* json.loads of the message content: a JSONDecodeError on text that is no JSON,
\* the parsed object otherwise.
JSONDecodeError == [raised |-> "JSONDecodeError"]

json_loads(content) == IF content.kind = "json" THEN content.value ELSE JSONDecodeError

\* extract_vc_information reading the keys with a default ("no info") instead of
\* raising a KeyError on a missing one.
extract_vc_information_defaulting(r) ==
    IF r.kind = "exception" THEN NoneVal
    ELSE LET obj == json_loads(r.content)
             get(k) == IF k \in DOMAIN obj THEN obj[k] ELSE PyStr("no info")
         IN  IF obj = JSONDecodeError THEN NoneVal
             ELSE [vc_name |-> get("vc_name"),
                   contacts |-> coerce(get("contacts")),
                   industries |-> coerce(get("industries")),
                   investment_rounds |-> coerce(get("investment_rounds"))]

\* What the function returns for the outcome r of client.chat.completions.create:
\* every exception (the call's, json.loads', a KeyError) is caught and gives None.
extract_vc_information(r) ==
    IF r.kind = "exception" THEN NoneVal
    ELSE LET response_json == r.content
             obj == json_loads(response_json)
         IN  IF obj = JSONDecodeError THEN NoneVal
             ELSE IF \E k \in Keys : k \notin DOMAIN obj THEN NoneVal
             ELSE [vc_name |-> obj.vc_name,
                   contacts |-> coerce(obj.contacts),
                   industries |-> coerce(obj.industries),
                   investment_rounds |-> coerce(obj.investment_rounds)]

\* "if not extracted_info": None is falsy, a dict of four keys is truthy.
falsy(info) == info = NoneVal

-----------------------------------------------------------------------------
(* format_information *)

Intro == "The information from the URL is the following: \n"

\* The test written as "'no info' in value".
is_no_info_member(value) == "no info" \in {value.v[i] : i \in DOMAIN value.v}

is_no_info(value) == value = PyList(<<"no info">>)

format_line(key, value, u) ==
    IF is_no_info(value)
    THEN "- There is not much information available about " \o capitalize(key)
         \o ". You can check it manually by visiting the website: " \o u \o "\n"
    ELSE "- " \o capitalize(key) \o ": " \o str(value) \o "\n"

format_information(info, u) ==
    Intro \o join("", [i \in 1..Len(FieldOrder) |->
                          format_line(FieldOrder[i], info[FieldOrder[i]], u)])

-----------------------------------------------------------------------------
(* The VentureCapital collection *)

\* uuid5 is a SHA-1 of namespace and name; the model keeps its two inputs, that
\* is, takes the hash to be free of collisions.
uuid5(namespace, name) == [namespace |-> namespace, name |-> name]

\* The identifier taken from the record's content without its name.
generate_uuid5_without_name(identifier) ==
    uuid5("NAMESPACE_DNS",
          repr(identifier.contacts) \o repr(identifier.industries)
              \o repr(identifier.investment_rounds))

generate_uuid5(identifier) == uuid5("NAMESPACE_DNS", "" \o str_dict(identifier))

Object(id, properties) == [uuid |-> id, properties |-> properties]

Min(a, b) == IF a < b THEN a ELSE b

\* The number of objects the index answers to a query that names no limit: the
\* server's QUERY_DEFAULTS_LIMIT, 10 unless the deployment sets another.
QUERY_DEFAULTS_LIMIT == 10

\* collection.query.fetch_objects(return_properties=["vc_name"]), no limit passed:
\* the answers the index can give, each one page of at most QUERY_DEFAULTS_LIMIT
\* objects of the collection. Which objects make the page is the index's order.
fetch_objects(objs) ==
    {{[vc_name |-> o.properties.vc_name] : o \in first} :
        first \in {p \in SUBSET objs :
                     Cardinality(p) = Min(QUERY_DEFAULTS_LIMIT, Cardinality(objs))}}

RECURSIVE strip_zeros(_)
\* The digits after the point without their trailing zeros.
strip_zeros(s) ==
    IF s # "" /\ Char(s, Len(s)) = "0" THEN strip_zeros(Slice(s, 1, Len(s) - 1)) ELSE s

\* The value of a number that is spelled as repr spells an int or a float, without
\* sign or exponent: its digits without the point, and how many follow the point.
num_value(s) ==
    <<int10(before(s, ".") \o strip_zeros(after(s, "."))), Len(strip_zeros(after(s, ".")))>>

\* Python's ==: numbers are equal by value (42 == 42.0), other values by type and
\* content.
py_eq(a, b) ==
    IF a.t = "num" /\ b.t = "num" THEN num_value(a.v[1]) = num_value(b.v[1]) ELSE a = b

\* extracted_info['vc_name'] not in [o.properties['vc_name'] for o in response.objects]
name_absent(info, objects) == ~\E o \in objects : py_eq(info.vc_name, o.vc_name)

\* collection.data.insert: the index refuses an id it already holds.
insert_accepted(objs, id) == id \notin {o.uuid : o \in objs}

\* An insert that puts the new object in place of the collection's content.
data_insert_replacing(objs, id, properties) == {Object(id, properties)}

\* collection.data.insert(properties, uuid), accepted: the object joins the collection.
data_insert(objs, id, properties) == objs \cup {Object(id, properties)}

SimilarLimit == 3

\* near_text answering one object more than the limit.
near_text_one_more(objs, query, limit) ==
    LET n == Min(limit + 1, Cardinality(objs))
    IN  {s \in [1..n -> objs] : \A i, j \in 1..n : i # j => s[i] # s[j]}

\* collection.query.near_text(query, limit): the limit nearest objects, nearest
\* first. The distance is the index's; every order is possible.
near_text(objs, query, limit) ==
    LET n == Min(limit, Cardinality(objs))
    IN  {s \in [1..n -> objs] : \A i, j \in 1..n : i # j => s[i] # s[j]}

-----------------------------------------------------------------------------
(* The world outside: the requests, the web site, the model's answers *)

URLs == {"https://example-vc.com", "https://beta.example", "https://gamma.example/about/us"}

PageAcme ==
    [text |-> "Acme Ventures invests in fintech and healthtech. Series A, Series B. Contact: hello@acme.vc Contact Us Team LinkedIn Mail Top",
     anchors |-> <<[href |-> "/contact", text |-> "Contact Us"],
                   [href |-> "team", text |-> "Team"],
                   [href |-> "https://www.linkedin.com/company/acme", text |-> "LinkedIn"],
                   [href |-> "mailto:hello@acme.vc", text |-> "Mail"],
                   [href |-> "#top", text |-> "Top"]>>]

PageBeta == [text |-> "O'Neil Capital", anchors |-> <<>>]

\* A page with an href that urljoin cannot parse: its host in brackets is no
\* IPv6 literal.
PageGamma ==
    [text |-> "Gamma Partners Contact Status Office",
     anchors |-> <<[href |-> "../contact", text |-> "Contact"],
                   [href |-> "//[2001:db8::1]/status", text |-> "Status"],
                   [href |-> "//[gamma.example]/contact", text |-> "Office"]>>]

\* What each site serves when it answers.
Web ==
    [u \in URLs |->
        IF u = "https://example-vc.com" THEN PageAcme
        ELSE IF u = "https://beta.example" THEN PageBeta
        ELSE PageGamma]

\* The outcomes of requests.get(u): no connection, an error status, the page.
HttpOutcomes(u) ==
    {[kind |-> "ConnectionError"],
     [kind |-> "response", status_code |-> 404, content |-> PageBeta],
     [kind |-> "response", status_code |-> 200, content |-> Web[u]]}

\* scrape_texts_and_links on every url and outcome of its GET, computed once.
Scraped == [u \in URLs |-> [r \in HttpOutcomes(u) |-> scrape_texts_and_links(u, r)]]

Info(n, c, i, r) == [vc_name |-> n, contacts |-> c, industries |-> i, investment_rounds |-> r]

AcmeFull ==
    Info(PyStr("Acme Ventures"),
         PyList(<<"hello@acme.vc", "https://example-vc.com/contact (Contact Us)">>),
         PyList(<<"fintech", "healthtech">>),
         PyList(<<"Series A", "Series B">>))

AcmeScalars ==
    Info(PyStr("Acme Ventures"), PyStr("no info"), PyStr("fintech"), PyList(<<"no info">>))

BetaFull == [AcmeFull EXCEPT !.vc_name = PyStr("O'Neil Capital")]

BetaOdd ==
    Info(PyStr("O'Neil Capital"), PyList(<<"no info", "x@beta.example">>), PyNum("42"), PyNull)

\* A name that is a number, as an int and as the float of the same value.
NumberName == [AcmeScalars EXCEPT !.vc_name = PyNum("42")]

NumberNameFloat == [AcmeFull EXCEPT !.vc_name = PyNum("42.0")]

Nameless == Info(PyStr("no info"), PyStr("no info"), PyStr("no info"), PyStr("no info"))

Without(obj, key) == [k \in (DOMAIN obj) \ {key} |-> obj[k]]

JsonObjects ==
    {AcmeFull, AcmeScalars, BetaFull, BetaOdd, NumberName, NumberNameFloat, Nameless}
        \cup {Without(AcmeFull, k) : k \in Keys}

LLMOutcomes ==
    {[kind |-> "exception"], [kind |-> "completion", content |-> [kind |-> "text"]]}
        \cup {[kind |-> "completion", content |-> [kind |-> "json", value |-> o]] :
                 o \in JsonObjects}

\* Firms the index may hold before the first request, inserted the way the
\* handler inserts: a full page of them.
SeedInfo(n) == Info(PyStr(n), PyList(<<"no info">>), PyList(<<"biotech">>), PyList(<<"Seed">>))

Seeds ==
    {SeedInfo(n) :
        n \in {"Seed One", "Seed Two", "Seed Three", "Seed Four", "Seed Five",
               "Seed Six", "Seed Seven", "Seed Eight", "Seed Nine", "Seed Ten"}}

\* The dicts extract_vc_information returns, and for each of them, computed once:
\* generate_uuid5 of it (and of every seed), format_information of it for every
\* url, and f"{it}".
Extracted == {extract_vc_information(r) : r \in LLMOutcomes} \ {NoneVal}

Identifiers == [info \in Extracted \cup Seeds |-> generate_uuid5(info)]

Messages == [info \in Extracted |-> [u \in URLs |-> format_information(info, u)]]

Queries == [info \in Extracted |-> str_dict(info)]

SeedStore == {Object(Identifiers[info], info) : info \in Seeds}

-----------------------------------------------------------------------------
(* process_vc_url *)

HTTPException(code, detail) == [status_code |-> code, detail |-> detail]

\* An exception the handler does not catch: the framework answers 500.
InternalServerError == [status_code |-> 500, detail |-> "Internal Server Error"]

Ok(message, names) == [status_code |-> 200, message |-> message, similar |-> names]

AtRest == {"Idle", "Responding", "RespondingError"}

\* Lines 176-179 for the value s that scrape_texts_and_links returned: unpacking None into
\* (texts, links) raises a TypeError, which nothing catches; texts + links is a
\* str, so "text is None" never holds.
unpack(s) ==
    IF s = NoneVal THEN [raised |-> InternalServerError, text |-> NoneVal]
    ELSE LET t == PyStr(s.texts \o s.links)
         IN  IF t = NoneVal
             THEN [raised |-> HTTPException(400, "Failed to scrape the website."),
                   text |-> NoneVal]
             ELSE [raised |-> NoneVal, text |-> t]

Init ==
    /\ store \in {{}, SeedStore}
    /\ nreq = 0
    /\ pc = [w \in Workers |-> "Idle"]
    /\ url = [w \in Workers |-> ""]
    /\ page = [w \in Workers |-> NoneVal]
    /\ scraped = [w \in Workers |-> NoneVal]
    /\ text = [w \in Workers |-> NoneVal]
    /\ response = [w \in Workers |-> NoneVal]
    /\ extracted_info = [w \in Workers |-> NoneVal]
    /\ existing = [w \in Workers |-> {}]
    /\ uuid = [w \in Workers |-> NoneVal]
    /\ user_friendly_text = [w \in Workers |-> ""]
    /\ result = [w \in Workers |-> NoneVal]
    /\ calls = [w \in Workers |-> <<>>]
    /\ store0 = [w \in Workers |-> {}]

\* Requests are taken while the collection holds at most one record more than a
\* page of the index: the collection outgrows a page and stays finite.
MaxStored == QUERY_DEFAULTS_LIMIT + 1

\* POST /process-url/ with body {"url": u} reaches worker w.
Receive(w) ==
    /\ pc[w] \in AtRest
    /\ nreq < MaxRequests
    /\ Cardinality(store) <= MaxStored
    /\ \E u \in URLs : url' = [url EXCEPT ![w] = u]
    /\ nreq' = nreq + 1
    /\ pc' = [pc EXCEPT ![w] = "Fetching"]
    /\ page' = [page EXCEPT ![w] = NoneVal]
    /\ scraped' = [scraped EXCEPT ![w] = NoneVal]
    /\ text' = [text EXCEPT ![w] = NoneVal]
    /\ response' = [response EXCEPT ![w] = NoneVal]
    /\ extracted_info' = [extracted_info EXCEPT ![w] = NoneVal]
    /\ existing' = [existing EXCEPT ![w] = {}]
    /\ uuid' = [uuid EXCEPT ![w] = NoneVal]
    /\ user_friendly_text' = [user_friendly_text EXCEPT ![w] = ""]
    /\ result' = [result EXCEPT ![w] = NoneVal]
    /\ calls' = [calls EXCEPT ![w] = <<>>]
    /\ store0' = [store0 EXCEPT ![w] = store]
    /\ UNCHANGED store

\* requests.get and raise_for_status. On a RequestException the function returns
\* None and the handler's unpacking of it ends the request.
Fetch(w) ==
    /\ pc[w] = "Fetching"
    /\ \E r \in HttpOutcomes(url[w]) :
          /\ page' = [page EXCEPT ![w] = r]
          /\ IF RequestException(r)
             THEN /\ scraped' = [scraped EXCEPT ![w] = Scraped[url[w]][r]]
                  /\ result' = [result EXCEPT ![w] = unpack(scraped'[w]).raised]
                  /\ pc' = [pc EXCEPT ![w] = "RespondingError"]
             ELSE /\ pc' = [pc EXCEPT ![w] = "ExtractingContent"]
                  /\ UNCHANGED <<scraped, result>>
    /\ calls' = [calls EXCEPT ![w] = Append(@, "get")]
    /\ UNCHANGED <<store, nreq, url, text, response, extracted_info, existing, uuid,
                   user_friendly_text, store0>>

\* BeautifulSoup's texts and links and the function's return (its response goes
\* out of scope), then text = texts + links. A ValueError of urljoin leaves the
\* function and the handler uncaught.
ExtractContent(w) ==
    /\ pc[w] = "ExtractingContent"
    /\ page' = [page EXCEPT ![w] = NoneVal]
    /\ IF Scraped[url[w]][page[w]] = ValueError
       THEN /\ result' = [result EXCEPT ![w] = InternalServerError]
            /\ pc' = [pc EXCEPT ![w] = "RespondingError"]
            /\ UNCHANGED <<scraped, text>>
       ELSE /\ scraped' = [scraped EXCEPT ![w] = Scraped[url[w]][page[w]]]
            /\ text' = [text EXCEPT ![w] = unpack(scraped'[w]).text]
            /\ IF unpack(scraped'[w]).raised # NoneVal
               THEN /\ result' = [result EXCEPT ![w] = unpack(scraped'[w]).raised]
                    /\ pc' = [pc EXCEPT ![w] = "RespondingError"]
               ELSE /\ pc' = [pc EXCEPT ![w] = "ExtractingInfo"]
                    /\ UNCHANGED result
    /\ UNCHANGED <<store, nreq, url, response, extracted_info, existing, uuid,
                   user_friendly_text, calls, store0>>

\* extract_vc_information(text), then "if not extracted_info".
ExtractInfo(w) ==
    /\ pc[w] = "ExtractingInfo"
    /\ \E r \in LLMOutcomes :
          LET info == extract_vc_information(r)
          IN  /\ response' = [response EXCEPT ![w] = r]
              /\ extracted_info' = [extracted_info EXCEPT ![w] = info]
              /\ IF falsy(info)
                 THEN /\ result' = [result EXCEPT ![w] =
                                       HTTPException(500, "Failed to extract information.")]
                      /\ pc' = [pc EXCEPT ![w] = "RespondingError"]
                 ELSE /\ pc' = [pc EXCEPT ![w] = "CheckingStore"]
                      /\ UNCHANGED result
    /\ calls' = [calls EXCEPT ![w] = Append(@, "llm")]
    /\ UNCHANGED <<store, nreq, url, page, scraped, text, existing, uuid,
                   user_friendly_text, store0>>

\* fetch_objects and the test of the name; a failure of the call is not caught.
CheckStore(w) ==
    /\ pc[w] = "CheckingStore"
    /\ \E ok \in BOOLEAN :
          IF ok
          THEN \E objects \in fetch_objects(store) :
                   /\ existing' = [existing EXCEPT ![w] = objects]
                   /\ pc' = [pc EXCEPT ![w] =
                                IF name_absent(extracted_info[w], objects)
                                THEN "Inserting" ELSE "QueryingSimilar"]
                   /\ UNCHANGED result
          ELSE /\ result' = [result EXCEPT ![w] = InternalServerError]
               /\ pc' = [pc EXCEPT ![w] = "RespondingError"]
               /\ UNCHANGED existing
    /\ calls' = [calls EXCEPT ![w] = Append(@, "fetch_objects")]
    /\ UNCHANGED <<store, nreq, url, page, scraped, text, response, extracted_info, uuid,
                   user_friendly_text, store0>>

\* An insert that looks the name up again in the same step and skips the object
\* when the name has been stored meanwhile.
InsertRechecking(w) ==
    /\ pc[w] = "Inserting"
    /\ uuid' = [uuid EXCEPT ![w] = Identifiers[extracted_info[w]]]
    /\ LET id == uuid'[w]
       IN  /\ \E ok \in BOOLEAN :
                 IF ok /\ insert_accepted(store, id)
                 THEN /\ store' = IF \E objects \in fetch_objects(store) :
                                         name_absent(extracted_info[w], objects)
                                  THEN data_insert(store, id, extracted_info[w])
                                  ELSE store
                      /\ pc' = [pc EXCEPT ![w] = "QueryingSimilar"]
                      /\ UNCHANGED result
                 ELSE /\ result' = [result EXCEPT ![w] = InternalServerError]
                      /\ pc' = [pc EXCEPT ![w] = "RespondingError"]
                      /\ UNCHANGED store
    /\ calls' = [calls EXCEPT ![w] = Append(@, "insert")]
    /\ UNCHANGED <<nreq, url, page, scraped, text, response, extracted_info, existing,
                   user_friendly_text, store0>>

\* generate_uuid5 and collection.data.insert; a failure of the call (the index
\* unreachable, or the id already held) is not caught.
Insert(w) ==
    /\ pc[w] = "Inserting"
    /\ uuid' = [uuid EXCEPT ![w] = Identifiers[extracted_info[w]]]
    /\ LET id == uuid'[w]
       IN  /\ \E ok \in BOOLEAN :
                 IF ok /\ insert_accepted(store, id)
                 THEN /\ store' = data_insert(store, id, extracted_info[w])
                      /\ pc' = [pc EXCEPT ![w] = "QueryingSimilar"]
                      /\ UNCHANGED result
                 ELSE /\ result' = [result EXCEPT ![w] = InternalServerError]
                      /\ pc' = [pc EXCEPT ![w] = "RespondingError"]
                      /\ UNCHANGED store
    /\ calls' = [calls EXCEPT ![w] = Append(@, "insert")]
    /\ UNCHANGED <<nreq, url, page, scraped, text, response, extracted_info, existing,
                   user_friendly_text, store0>>

\* format_information, near_text and the answer; a failure of near_text is not caught.
\* Line 200 rebinds response to the answer of near_text, whose order result keeps.
QuerySimilar(w) ==
    /\ pc[w] = "QueryingSimilar"
    /\ user_friendly_text' =
          [user_friendly_text EXCEPT ![w] = Messages[extracted_info[w]][url[w]]]
    /\ LET message == user_friendly_text'[w]
       IN  /\ \E ok \in BOOLEAN :
                 IF ok
                 THEN \E objects \in near_text(store, Queries[extracted_info[w]], SimilarLimit) :
                         /\ result' = [result EXCEPT ![w] =
                                          Ok(message, [i \in DOMAIN objects |->
                                                          objects[i].properties.vc_name])]
                         /\ existing' = [existing EXCEPT ![w] =
                                            {[vc_name |-> objects[i].properties.vc_name] :
                                                i \in DOMAIN objects}]
                         /\ pc' = [pc EXCEPT ![w] = "Responding"]
                 ELSE /\ result' = [result EXCEPT ![w] = InternalServerError]
                      /\ existing' = existing
                      /\ pc' = [pc EXCEPT ![w] = "RespondingError"]
    /\ calls' = [calls EXCEPT ![w] = Append(@, "near_text")]
    /\ UNCHANGED <<store, nreq, url, page, scraped, text, response, extracted_info,
                   uuid, store0>>

Handler(w) ==
    \/ Receive(w)
    \/ Fetch(w)
    \/ ExtractContent(w)
    \/ ExtractInfo(w)
    \/ CheckStore(w)
    \/ Insert(w)
    \/ QuerySimilar(w)

\* One worker, as uvicorn.run starts it: the handler has no await, so a request
\* runs to its response before the next one is taken.
Next == Handler(1)

Spec == Init /\ [][Next]_vars

\* Several server processes on the one index: the steps of two requests interleave
\* at every call to the outside.
NextConcurrent == \E w \in Workers : Handler(w)

InitConcurrent == Init /\ store = {}

SpecConcurrent == InitConcurrent /\ [][NextConcurrent]_vars

-----------------------------------------------------------------------------
(* Properties *)

FetchFailed(w) ==
    /\ page[w] # NoneVal
    /\ \/ page[w].kind = "ConnectionError"
       \/ page[w].status_code \notin 200..299

\* C1: a request whose fetch fails (no connection, or a non-2xx status) is answered
\* 400 "Failed to scrape the website.", and has called neither the LLM nor the index.
C1_FetchFailureAnswers400 ==
    \A w \in Workers :
        FetchFailed(w) =>
            /\ pc[w] = "RespondingError"
            /\ result[w] = [status_code |-> 400, detail |-> "Failed to scrape the website."]
            /\ calls[w] = <<"get">>

NamesIn(objs) == {o.properties.vc_name : o \in objs}

\* C2: with requests handled one at a time, no two stored records share a vc_name,
\* and a request whose extracted vc_name was already stored leaves the store as it
\* found it and makes no insert, whatever its other fields are.
C2_NoDuplicateName ==
    /\ \A o1, o2 \in store :
          py_eq(o1.properties.vc_name, o2.properties.vc_name) => o1 = o2
    /\ \A w \in Workers :
          (/\ extracted_info[w] # NoneVal
           /\ \E o \in store0[w] : py_eq(o.properties.vc_name, extracted_info[w].vc_name))
              => store = store0[w] /\ "insert" \notin {calls[w][i] : i \in DOMAIN calls[w]}

ExtractionFails(r) ==
    \/ r.kind = "exception"
    \/ r.content.kind # "json"
    \/ \E k \in {"vc_name", "contacts", "industries", "investment_rounds"} :
          k \notin DOMAIN r.content.value

\* C3: a request whose structured extraction fails (an exception of the call, text
\* that is no JSON, a missing key) gets None from extract_vc_information, is answered
\* 500 "Failed to extract information.", and has made no call to the index.
C3_ExtractionFailureAnswers500 ==
    \A w \in Workers :
        (response[w] # NoneVal /\ ExtractionFails(response[w])) =>
            /\ extracted_info[w] = NoneVal
            /\ pc[w] = "RespondingError"
            /\ result[w] = [status_code |-> 500, detail |-> "Failed to extract information."]
            /\ calls[w] = <<"get", "llm">>
            /\ store = store0[w]

C3_Witness ==
    \E w \in Workers :
        /\ response[w] # NoneVal
        /\ response[w].kind = "completion"
        /\ response[w].content.kind = "json"
        /\ "industries" \notin DOMAIN response[w].content.value
        /\ pc[w] = "RespondingError"

\* C4: every step leaves the set of stored records unchanged or adds exactly one
\* record to it, the extracted one, and this only when extraction succeeded and no
\* stored record had the extracted vc_name; no record is changed or removed.
C4_AppendOnly ==
    [][\/ store' = store
       \/ \E w \in Workers :
             /\ extracted_info[w] # NoneVal
             /\ ~\E o \in store : py_eq(o.properties.vc_name, extracted_info[w].vc_name)
             /\ store \subseteq store'
             /\ Cardinality(store' \ store) = 1
             /\ \A o \in store' \ store : o.properties = extracted_info[w]]_vars

\* C5 as claimed: every field of a returned record, vc_name included, is a sequence.
C5_EveryFieldIsSequence ==
    \A w \in Workers :
        extracted_info[w] # NoneVal =>
            \A k \in {"vc_name", "contacts", "industries", "investment_rounds"} :
                extracted_info[w][k].t = "list"

\* C5, amended: a returned record has the four keys; contacts, industries and
\* investment_rounds are never a bare string: a string the model returned is wrapped
\* into a one-element sequence, each field on its own, and any other value is kept
\* as returned; vc_name is kept as returned.
C5_StringsWrapped ==
    \A w \in Workers :
        extracted_info[w] # NoneVal =>
            LET raw == response[w].content.value
                info == extracted_info[w]
            IN  /\ DOMAIN info = {"vc_name", "contacts", "industries", "investment_rounds"}
                /\ info.vc_name = raw.vc_name
                /\ \A k \in {"contacts", "industries", "investment_rounds"} :
                      /\ info[k].t # "str"
                      /\ raw[k].t = "str" => info[k] = [t |-> "list", v |-> <<raw[k].v[1]>>]
                      /\ raw[k].t # "str" => info[k] = raw[k]

C5_Witness ==
    \E w \in Workers :
        /\ extracted_info[w] # NoneVal
        /\ response[w].content.value.contacts.t = "str"
        /\ response[w].content.value.investment_rounds.t = "list"
        /\ extracted_info[w].vc_name.t = "str"
        /\ extracted_info[w].contacts.t = "list"

Capitalized ==
    [vc_name |-> "Vc_name", contacts |-> "Contacts", industries |-> "Industries",
     investment_rounds |-> "Investment_rounds"]

C6_Line(info, key, u) ==
    IF info[key] = [t |-> "list", v |-> <<"no info">>]
    THEN "- There is not much information available about " \o Capitalized[key]
         \o ". You can check it manually by visiting the website: " \o u \o "\n"
    ELSE "- " \o Capitalized[key] \o ": " \o str(info[key]) \o "\n"

\* C6: the formatted text is the introductory line followed by exactly one line per
\* field, in the order vc_name, contacts, industries, investment_rounds: the "check
\* it manually" sentence naming the field and the URL for a value that is exactly
\* ["no info"], and "- <Field>: <value>", the field name capitalized, for any other.
C6_OneLinePerField ==
    \A w \in Workers :
        user_friendly_text[w] # "" =>
            user_friendly_text[w] =
                "The information from the URL is the following: \n"
                    \o C6_Line(extracted_info[w], "vc_name", url[w])
                    \o C6_Line(extracted_info[w], "contacts", url[w])
                    \o C6_Line(extracted_info[w], "industries", url[w])
                    \o C6_Line(extracted_info[w], "investment_rounds", url[w])

C6_Witness ==
    \E w \in Workers :
        /\ user_friendly_text[w] # ""
        /\ extracted_info[w].contacts = [t |-> "list", v |-> <<"no info">>]
        /\ extracted_info[w].industries = [t |-> "list", v |-> <<"fintech">>]

\* C7: the identifier is a function of the whole record: every stored object carries
\* the identifier computed from its own properties (Identifiers holds generate_uuid5
\* of every record the collection may hold), no two stored objects share one,
\* and, with requests handled one at a time, an insert never uses an identifier that
\* a stored object of another name or content holds.
C7_IdentifierOfRecord ==
    /\ \A o \in store : o.uuid = Identifiers[o.properties]
    /\ \A o1, o2 \in store : o1.uuid = o2.uuid => o1 = o2
    /\ \A w \in Workers :
          pc[w] = "Inserting" =>
              \A o \in store :
                  o.uuid = Identifiers[extracted_info[w]]
                      => o.properties = extracted_info[w]

C7_Witness ==
    \E w \in Workers :
        /\ pc[w] = "QueryingSimilar"
        /\ uuid[w] # NoneVal
        /\ Object(uuid[w], extracted_info[w]) \in store \ store0[w]
        /\ \E o \in store0[w] :
              /\ o.properties.vc_name # extracted_info[w].vc_name
              /\ o.properties.contacts = extracted_info[w].contacts
              /\ o.properties.industries = extracted_info[w].industries
              /\ o.properties.investment_rounds = extracted_info[w].investment_rounds

StepOrder == <<"Fetching", "ExtractingContent", "ExtractingInfo", "CheckingStore",
               "Inserting", "QueryingSimilar", "Responding">>

CallOrder == <<"get", "llm", "fetch_objects", "insert", "near_text">>

IndexIn(seq, x) == CHOOSE i \in DOMAIN seq : seq[i] = x

C8_Forward(w) ==
    \/ pc'[w] = pc[w]
    \/ pc[w] \in {"Idle", "Responding", "RespondingError"} /\ pc'[w] = "Fetching"
    \/ /\ pc[w] \notin {"Idle", "Responding", "RespondingError"}
       /\ \/ pc'[w] = "RespondingError"
          \/ /\ pc'[w] # "RespondingError"
             /\ IndexIn(StepOrder, pc'[w]) > IndexIn(StepOrder, pc[w])
             /\ IndexIn(StepOrder, pc'[w]) > IndexIn(StepOrder, pc[w]) + 1
                   => pc[w] = "CheckingStore" /\ pc'[w] = "QueryingSimilar"

C8_Outcome(w) ==
    /\ \A i, j \in DOMAIN calls[w] :
          i < j => IndexIn(CallOrder, calls[w][i]) < IndexIn(CallOrder, calls[w][j])
    /\ result[w] # NoneVal <=> pc[w] \in {"Responding", "RespondingError"}
    /\ pc[w] = "RespondingError" => result[w].status_code \in {400, 500}
    /\ pc[w] = "Responding" =>
          /\ result[w].status_code = 200
          /\ result[w].message = user_friendly_text[w]
          /\ Len(result[w].similar) <= 3
          /\ \A i \in DOMAIN result[w].similar : result[w].similar[i] \in NamesIn(store)
          /\ Cardinality(store) <= 3 =>
                \E i \in DOMAIN result[w].similar :
                    py_eq(result[w].similar[i], extracted_info[w].vc_name)
          /\ calls[w] \in {<<"get", "llm", "fetch_objects", "insert", "near_text">>,
                           <<"get", "llm", "fetch_objects", "near_text">>}

\* C8: a request goes through the steps fetch, content extraction, structured
\* extraction, existence check, optional insert, similarity query, response, strictly
\* forward and each at most once; a failing step goes straight to the error response;
\* the request ends in exactly one of the success response (the formatted summary and
\* at most 3 similar names, queried after the insert) and an error response, and
\* until it is answered it always has its next step to take.
C8_SinglePass ==
    [][\A w \in Workers :
          /\ C8_Forward(w)
          /\ C8_Outcome(w)'
          /\ pc'[w] \notin {"Idle", "Responding", "RespondingError"}
                => (ENABLED Handler(w))']_vars

C8_Witness ==
    \E w \in Workers :
        /\ pc[w] = "Responding"
        /\ calls[w] = <<"get", "llm", "fetch_objects", "insert", "near_text">>
        /\ Cardinality(store) > 3
        /\ Len(result[w].similar) = 3

\* C9: nothing makes the check and the insert one step: an insert the index accepts
\* adds the request's record whatever names the collection holds by then, so two
\* requests that both found a name absent can both insert a record of that name.
C9_InsertAfterStaleCheck ==
    [][\A w \in Workers :
          (pc[w] = "Inserting" /\ pc'[w] = "QueryingSimilar") =>
              /\ Object(generate_uuid5(extracted_info[w]), extracted_info[w]) \notin store
              /\ store' = store \cup
                    {Object(generate_uuid5(extracted_info[w]), extracted_info[w])}]_vars

C9_Witness ==
    /\ \A w \in {1, 2} :
          /\ pc[w] \in {"QueryingSimilar", "Responding"}
          /\ calls[w][Len(calls[w])] \in {"insert", "near_text"}
          /\ "insert" \in {calls[w][i] : i \in DOMAIN calls[w]}
          /\ extracted_info[w].vc_name \notin {o.vc_name : o \in existing[w]}
          /\ Object(uuid[w], extracted_info[w]) \in store
    /\ extracted_info[1].vc_name = extracted_info[2].vc_name
    /\ uuid[1] # uuid[2]

EndedInError(w) == pc[w] = "RespondingError"

\* C10 as claimed: a request that ends in an error leaves the set of stored records
\* as it was when the request began.
C10_ErrorLeavesStoreUnchanged ==
    \A w \in Workers : EndedInError(w) => store = store0[w]

InsertedThenQueryFailed(w) ==
    /\ Len(calls[w]) > 1
    /\ calls[w][Len(calls[w])] = "near_text"
    /\ calls[w][Len(calls[w]) - 1] = "insert"

\* C10, amended: a request that ends in an error leaves the set of stored records as
\* it was when the request began, except when the failing call is the similarity
\* query after an accepted insert: then the store is the one before the request with
\* the request's new record added.
C10_ErrorAfterInsertKeepsRecord ==
    \A w \in Workers :
        EndedInError(w) =>
            IF InsertedThenQueryFailed(w)
            THEN /\ Object(uuid[w], extracted_info[w]) \notin store0[w]
                 /\ store = store0[w] \cup {Object(uuid[w], extracted_info[w])}
            ELSE store = store0[w]

C10_Witness ==
    \E w \in Workers :
        /\ EndedInError(w)
        /\ InsertedThenQueryFailed(w)
        /\ store0[w] # {}
        /\ store # store0[w]

====
